---- MODULE Spec2Model ----
(***************************************************************************)
(* Model of the personal-website front end: the theme / snow preference    *)
(* handling of SimpleNavigation.vue, HeroSection.vue, NavBar.vue and       *)
(* App.vue over the shared localStorage and the document root's            *)
(* data-theme attribute, with the ErrorBoundary.vue wrapper that captures  *)
(* errors thrown by the wrapped component; the scroll-spy of               *)
(* SimpleNavigation.vue; and the intersection-triggered reveal of the      *)
(* About, Contact, Projects sections and TechIconGrid; a tap on            *)
(* HeroSection's mobile buttons; and the utilities: the ErrorBoundary      *)
(* callback registry, NetworkErrorHandler, the mobile viewport height,     *)
(* LazyImage and the service worker's fetch handler.                       *)
(***************************************************************************)
EXTENDS Integers, Sequences, FiniteSets, TLC

VARIABLES
    storage,          \* localStorage: [theme, showSnow], Null = key absent
    dataTheme,        \* document.documentElement's data-theme, Null = unset
    app,              \* which App.vue is running: "legacy" or "current"
    pending,          \* mounted hooks still to run in this flush, in order
    mounted,          \* components whose mounted hook has run
    hasError,         \* ErrorBoundary wrappers showing their fallback
    currentTheme,     \* each theme component's currentTheme ref
    showSnow,         \* App.vue's showSnow ref
    scrollListeners,  \* number of handleScroll listeners on window
    scrollY,          \* window.scrollY
    activeSection,    \* SimpleNavigation's activeSection ref
    gap,              \* layout: empty height below each section element
    scrollTarget,     \* top of the smooth scroll in flight, NoTarget if none
    navCall,          \* history: the section whose scrollToSection call
                      \* started the scroll in flight or just settled
    reveal,           \* per reveal component: mounted, flag, observer
    lastEntry,        \* history: the intersection entry delivered last
    ioAvailable,      \* 'IntersectionObserver' in window
    tap,              \* the tap on a mobile button of HeroSection under way
    errs,             \* utils ErrorBoundary: instance, callbacks, last delivery
    net,              \* NetworkErrorHandler.fetchWithRetry call under way
    vp,               \* mobile viewport: listeners, timers, the --vh property
    lz,               \* a LazyImage component
    img,              \* an img element whose onerror is handleImageError
    sw,               \* service worker: caches, requests in flight, history
    lastOp,           \* history: the handler that ran last and how it ended
    pre,              \* history: what lastOp's component saw before it ran
    pre2,             \* history: the same before the first of two toggles
    lastSet,          \* history: value left by the last completed toggle
    faulted           \* history: some localStorage call has thrown

prefVars == <<storage, dataTheme, currentTheme, showSnow>>
lifeVars == <<app, pending, mounted, hasError>>
spyVars  == <<scrollListeners, scrollY, activeSection, gap, scrollTarget, navCall>>
revealVars == <<reveal, lastEntry, ioAvailable>>
toolVars == <<errs, net, vp, lz, img, sw>>
utilVars == <<tap, toolVars>>
histVars == <<lastOp, pre, pre2, lastSet, faulted>>
vars == <<storage, dataTheme, app, pending, mounted, hasError, currentTheme,
          showSnow, scrollListeners, scrollY, activeSection, gap, scrollTarget,
          navCall, reveal, lastEntry, ioAvailable, tap, errs, net, vp, lz, img, sw,
          lastOp, pre, pre2, lastSet, faulted>>

----------------------------------------------------------------------------
(* Values *)

\* JavaScript null: getItem of an absent key, an attribute never set.
Null == "null"

\* Text that localStorage may hold under 'theme' when the page loads.
StoredThemes == {Null, "", "light", "dark", "blue"}

\* Text that localStorage may hold under 'showSnow' when the page loads.
StoredSnow == {Null, "", "true", "false", "yes"}

ThemeOptions == {"light", "dark"}

ThemeComps == {"SimpleNavigation", "HeroSection", "NavBar"}

\* Components wrapped in an <ErrorBoundary> by the current App.vue.
Bounded == {"SimpleNavigation", "HeroSection"}

\* Order in which the mounted hooks run (children before the parent).
MountOrder(a) ==
    IF a = "current" THEN <<"SimpleNavigation", "HeroSection", "App">>
    ELSE <<"NavBar", "App">>

\* A JavaScript string or null used as a condition.
Truthy(s) == s # Null /\ s # ""

\* a || b on strings.
OrElse(a, b) == IF Truthy(a) THEN a ELSE b

\* Boolean.prototype.toString.
BoolToString(b) == IF b THEN "true" ELSE "false"

----------------------------------------------------------------------------
(* Scroll-spy of SimpleNavigation.vue *)

sections == <<"hero", "about", "projects", "contact">>

SectionIds == {sections[i] : i \in 1..Len(sections)}

navHeight == 80

lookAhead == 100

\* Layout: distance from one section's top to the next one's.
SectionHeight == 1000

\* Layout: the empty height a layout may leave below each section element.
Gap == 100

\* Position of a section in document order.
Order(id) == CHOOSE i \in 1..Len(sections) : sections[i] = id

\* Top offset of a section element relative to the document
\* (rect.top + window.scrollY).
SectionTop(id) == (Order(id) - 1) * SectionHeight

\* element.offsetHeight of a section element
offsetHeight == SectionHeight - gap

\* Section elements document.getElementById finds.
Present ==
    IF app = "current"
    THEN {"about", "projects", "contact"}
            \cup (IF "HeroSection" \in hasError THEN {} ELSE {"hero"})
    ELSE {}

\* ScanSections that takes the navigation bar's height off each top.
RECURSIVE ScanSections_NavOffset(_, _, _, _)
ScanSections_NavOffset(i, active, y, present) ==
    IF i > Len(sections) THEN active
    ELSE IF sections[i] \notin present
         THEN ScanSections_NavOffset(i + 1, active, y, present)
    ELSE IF y + lookAhead >= SectionTop(sections[i]) - navHeight
            /\ y + lookAhead < SectionTop(sections[i]) - navHeight + offsetHeight
         THEN sections[i]
         ELSE ScanSections_NavOffset(i + 1, active, y, present)

\* ScanSections with > for >= at a section's top.
RECURSIVE ScanSections_Strict(_, _, _, _)
ScanSections_Strict(i, active, y, present) ==
    IF i > Len(sections) THEN active
    ELSE IF sections[i] \notin present
         THEN ScanSections_Strict(i + 1, active, y, present)
    ELSE IF y + lookAhead > SectionTop(sections[i])
            /\ y + lookAhead < SectionTop(sections[i]) + offsetHeight
         THEN sections[i]
         ELSE ScanSections_Strict(i + 1, active, y, present)

\* ScanSections that falls back to the first section when none matches.
RECURSIVE ScanSections_Resets(_, _, _, _)
ScanSections_Resets(i, active, y, present) ==
    IF i > Len(sections) THEN sections[1]
    ELSE IF sections[i] \notin present
         THEN ScanSections_Resets(i + 1, active, y, present)
    ELSE IF y + lookAhead >= SectionTop(sections[i])
            /\ y + lookAhead < SectionTop(sections[i]) + offsetHeight
         THEN sections[i]
         ELSE ScanSections_Resets(i + 1, active, y, present)

\* The loop of updateActiveSection: the first section, in order, whose
\* element exists and contains scrollY + 100; the old value if there is none.
RECURSIVE ScanSections(_, _, _, _)
ScanSections(i, active, y, present) ==
    IF i > Len(sections) THEN active
    ELSE IF sections[i] \notin present THEN ScanSections(i + 1, active, y, present)
    ELSE IF y + lookAhead >= SectionTop(sections[i])
            /\ y + lookAhead < SectionTop(sections[i]) + offsetHeight
         THEN sections[i]
         ELSE ScanSections(i + 1, active, y, present)

\* updateActiveSection without the look-ahead of 100.
updateActiveSection_NoLookAhead(active, y, present) ==
    ScanSections(1, active, y - lookAhead, present)

updateActiveSection(active, y, present) == ScanSections(1, active, y, present)

\* No smooth scroll in flight.
NoTarget == 0 - 1

Max(a, b) == IF a >= b THEN a ELSE b

\* TargetPosition without the navigation bar's height.
TargetPosition_NoNav(top) == Max(0, top)

\* scrollToSection / handleNavigate: Math.max(0, absoluteElementTop - navHeight)
TargetPosition(top) == Max(0, top - navHeight)

\* scrollToSection that assigns activeSection before looking the element up.
scrollToSection_NoGuard(id, active, present) ==
    IF id \notin present
    THEN [found |-> FALSE, target |-> NoTarget, active |-> id]
    ELSE [found |-> TRUE, target |-> TargetPosition(SectionTop(id)), active |-> id]

\* scrollToSection that scrolls to the top of the page for a missing element.
scrollToSection_ScrollsAnyway(id, active, present) ==
    IF id \notin present
    THEN [found |-> TRUE, target |-> 0, active |-> active]
    ELSE [found |-> TRUE, target |-> TargetPosition(SectionTop(id)), active |-> id]

\* SimpleNavigation.vue scrollToSection: nothing for a missing element,
\* else window.scrollTo the target and activeSection = sectionId.
scrollToSection(id, active, present) ==
    IF id \notin present
    THEN [found |-> FALSE, target |-> NoTarget, active |-> active]
    ELSE [found |-> TRUE, target |-> TargetPosition(SectionTop(id)), active |-> id]

\* HeroSection.vue handleNavigate: the same without touching activeSection.
handleNavigate(id, active, present) ==
    IF id \notin present
    THEN [found |-> FALSE, target |-> NoTarget, active |-> active]
    ELSE [found |-> TRUE, target |-> TargetPosition(SectionTop(id)), active |-> active]

\* removeScrollListener that removes nothing.
removeScrollListener_Leak(n) == n

\* window.removeEventListener('scroll', handleScroll) in onUnmounted
removeScrollListener(n) == IF n > 0 THEN n - 1 ELSE n

\* Scroll positions sampled: the page top, a position whose look-ahead
\* falls in the gap below the first section, the positions around the
\* first boundary, and every section's scroll target.
ScrollPositions ==
    {0, 850, 899, 900, 919, 920, 921, 950}
        \cup {TargetPosition(SectionTop(id)) : id \in SectionIds}

----------------------------------------------------------------------------
(* Preference handlers, as functions of what they read *)

\* localStorage.getItem(key)
getItem(key) == storage[key]

\* localStorage.setItem(key, value) on a store, when it does not throw.
setItem(store, key, value) == [store EXCEPT ![key] = value]

\* OtherTheme with the ternary's branches both giving 'dark'.
OtherTheme_Stuck(cur) == "dark"

\* SimpleNavigation.vue / HeroSection.vue: the ternary in toggleTheme.
OtherTheme(cur) == IF cur = "light" THEN "dark" ELSE "light"

themes == <<"light", "dark">>

\* Array.prototype.indexOf on themes (0-based, -1 when absent).
indexOf(v) ==
    IF \E i \in 1..Len(themes) : themes[i] = v
    THEN (CHOOSE i \in 1..Len(themes) : themes[i] = v) - 1
    ELSE -1

\* NavBar.vue: themes[(index + 1) % themes.length]
NextTheme(cur) == themes[((indexOf(cur) + 1) % Len(themes)) + 1]

\* SavedTheme with 'dark' as the fallback.
SavedTheme_DefaultDark(saved) == OrElse(saved, "dark")

\* The value a mounted hook takes from storage: getItem('theme') || 'light'
SavedTheme(saved) == OrElse(saved, "light")

\* App.vue: saved ? saved === 'true' : true
SavedSnow(saved) == IF Truthy(saved) THEN saved = "true" ELSE TRUE

\* A state of the document root and the store, and the effect of a handler
\* on it: the in-memory value it leaves, and whether setItem threw.
Dom == [attr |-> dataTheme, store |-> storage]

\* applyTheme that sets the attribute from what the store held before the
\* write instead of from its argument.
applyTheme_AttrFromStore(dom, theme, setThrows) ==
    [attr  |-> dom.store.theme,
     store |-> IF setThrows THEN dom.store ELSE setItem(dom.store, "theme", theme),
     threw |-> setThrows]

\* NavBar.vue applyTheme: setAttribute, then setItem.
applyTheme(dom, theme, setThrows) ==
    [attr  |-> theme,
     store |-> IF setThrows THEN dom.store ELSE setItem(dom.store, "theme", theme),
     threw |-> setThrows]

\* App.vue applyShowSnow: setItem('showSnow', value.toString())
applyShowSnow(dom, value, setThrows) ==
    [attr  |-> dom.attr,
     store |-> IF setThrows THEN dom.store
               ELSE setItem(dom.store, "showSnow", BoolToString(value)),
     threw |-> setThrows]

\* toggleThemeInline without the setItem call.
toggleThemeInline_NoPersist(cur, dom, setThrows) ==
    LET next == OtherTheme(cur)
    IN  [mem |-> next, attr |-> next, store |-> dom.store, threw |-> FALSE]

\* SimpleNavigation.vue / HeroSection.vue toggleTheme: assign the ref,
\* setAttribute, setItem.
toggleThemeInline(cur, dom, setThrows) ==
    LET next == OtherTheme(cur)
    IN  [mem   |-> next,
         attr  |-> next,
         store |-> IF setThrows THEN dom.store ELSE setItem(dom.store, "theme", next),
         threw |-> setThrows]

\* NavBar.vue toggleTheme: rotate over themes, then applyTheme.
toggleThemeNavBar(cur, dom, setThrows) ==
    LET next == NextTheme(cur)
        eff  == applyTheme(dom, next, setThrows)
    IN  [mem |-> next, attr |-> eff.attr, store |-> eff.store, threw |-> eff.threw]

toggleTheme(c, cur, dom, setThrows) ==
    IF c = "NavBar" THEN toggleThemeNavBar(cur, dom, setThrows)
    ELSE toggleThemeInline(cur, dom, setThrows)

\* App.vue toggleSnow: negate the ref, then applyShowSnow.
toggleSnow(cur, dom, setThrows) ==
    LET next == ~cur
        eff  == applyShowSnow(dom, next, setThrows)
    IN  [mem |-> next, attr |-> eff.attr, store |-> eff.store, threw |-> eff.threw]

\* mountTheme that never reads the stored value and starts from 'light'.
mountTheme_IgnoresSaved(c, saved, dom, setThrows) ==
    [mem |-> "light", attr |-> "light", store |-> dom.store, threw |-> FALSE]

\* The theme part of a mounted hook.  SimpleNavigation and HeroSection set
\* the ref and the attribute; NavBar sets the ref and calls applyTheme.
mountTheme(c, saved, dom, setThrows) ==
    LET v == SavedTheme(saved)
    IN  IF c = "NavBar"
        THEN LET eff == applyTheme(dom, v, setThrows)
             IN  [mem |-> v, attr |-> eff.attr, store |-> eff.store, threw |-> eff.threw]
        ELSE [mem |-> v, attr |-> v, store |-> dom.store, threw |-> FALSE]

\* The snow part of App.vue's mounted hook.
mountSnow(saved, dom, setThrows) ==
    LET v   == SavedSnow(saved)
        eff == applyShowSnow(dom, v, setThrows)
    IN  [mem |-> v, attr |-> eff.attr, store |-> eff.store, threw |-> eff.threw]

----------------------------------------------------------------------------
(* History *)

NoSnap == [mem |-> Null, stored |-> Null, attr |-> Null]

\* What component c's preference looks like right now.
Snap(c) ==
    IF c \in ThemeComps
    THEN [mem |-> currentTheme[c], stored |-> storage.theme, attr |-> dataTheme]
    ELSE [mem |-> BoolToString(showSnow), stored |-> storage.showSnow, attr |-> Null]

Op(op, who, getThrew, setThrew, twice) ==
    [op |-> op, who |-> who, getThrew |-> getThrew, setThrew |-> setThrew,
     escaped |-> getThrew \/ setThrew, twice |-> twice]

NoSet == [val |-> Null, reloaded |-> FALSE]

----------------------------------------------------------------------------
(* Reveal components *)

RevealComps == {"AboutSection", "ContactSection", "ProjectsSection", "TechIconGrid"}

\* A reveal component before it is mounted.  leaked counts the observers
\* of unmounted instances of the component that still observe.
NoReveal == [mounted |-> FALSE, isVisible |-> FALSE, observing |-> FALSE, leaked |-> 0]

NoEntry == [who |-> Null, ratio |-> 0, isIntersecting |-> FALSE, was |-> FALSE]

----------------------------------------------------------------------------
(* The utilities before anything has used them *)

\* No tap on a mobile button is under way.
NoTap == [stage |-> "idle", kind |-> Null, before |-> NoSnap]

\* utils ErrorBoundary: no instance made, nothing registered or delivered.
NoErrs == [made |-> 0, refs |-> {}, callbacks |-> <<>>, delivered |-> <<>>,
           caught |-> 0, escaped |-> FALSE, handled |-> FALSE]

\* No fetchWithRetry call has been made.
NoNet == [phase |-> "idle", asked |-> 0, attempts |-> 0, calls |-> 0,
          outcomes |-> <<>>, result |-> Null]

\* initMobileViewport has not run: --vh is not set.
NoVh == [px |-> 0, frac |-> 0]

NoVp == [innerHeight |-> 0, listening |-> FALSE, timers |-> 0,
         cleaned |-> FALSE, vh |-> NoVh, lateWrites |-> 0]

\* A LazyImage before it is mounted.
NoLz == [mounted |-> FALSE, loading |-> Null, observing |-> FALSE,
         inView |-> FALSE, isIntersecting |-> FALSE, isLoaded |-> FALSE,
         isError |-> FALSE]

\* No URL: an img with no src, an absent fallbackSrc argument.
NoUrl == [abs |-> FALSE, path |-> ""]

\* An img element with no source assigned.
NoImg == [src |-> NoUrl, fallbackSrc |-> NoUrl, inFlight |-> FALSE,
          assigned |-> 0, placeholder |-> FALSE, errors |-> 0]

\* The service worker with empty caches and no request in flight.
NoSw == [static |-> {}, dynamic |-> {}, inFlight |-> {}, writes |-> {},
         events |-> 0, fetched |-> {}, hits |-> {}, skipped |-> {}]

UtilIdle ==
    /\ tap = NoTap
    /\ errs = NoErrs
    /\ net = NoNet
    /\ vp = NoVp
    /\ lz = NoLz
    /\ img = NoImg
    /\ sw = NoSw

----------------------------------------------------------------------------
(* Initial state: a page load with any content of localStorage *)

Fresh(a) ==
    /\ app = a
    /\ pending = MountOrder(a)
    /\ mounted = {}
    /\ hasError = {}
    /\ dataTheme = Null
    /\ currentTheme = [c \in ThemeComps |-> "light"]
    /\ showSnow = TRUE
    /\ scrollListeners = 0
    /\ scrollY = 0
    /\ activeSection = "hero"
    /\ scrollTarget = NoTarget
    /\ navCall = Null
    /\ reveal = [s \in RevealComps |-> NoReveal]
    /\ lastEntry = NoEntry

Init ==
    /\ storage \in [theme : StoredThemes, showSnow : StoredSnow]
    /\ \E a \in {"legacy", "current"} : Fresh(a)
    /\ gap = 0
    /\ ioAvailable = TRUE
    /\ UtilIdle
    /\ lastOp = Op("load", "page", FALSE, FALSE, FALSE)
    /\ pre = NoSnap
    /\ pre2 = NoSnap
    /\ lastSet = [theme |-> NoSet, showSnow |-> NoSet]
    /\ faulted = FALSE

----------------------------------------------------------------------------
(* ErrorBoundary.vue: an error thrown by a wrapped component's hook or      *)
(* event handler is captured, the fallback replaces the slot and the        *)
(* wrapped component is unmounted.  Elsewhere main.ts's errorHandler logs   *)
(* the error and the component stays.                                       *)

Captured(c) == app = "current" /\ c \in Bounded

\* The components live after component c's handler ended (escaped or not).
\* A component whose mounted hook failed outside a boundary stays in the tree.
AfterHandler(c, escaped) ==
    /\ faulted' = (faulted \/ escaped)
    /\ hasError' = IF escaped /\ Captured(c) THEN hasError \cup {c} ELSE hasError
    /\ mounted' = IF escaped /\ Captured(c) THEN mounted \ {c} ELSE mounted \cup {c}

----------------------------------------------------------------------------
(* Mounted hooks *)

\* SimpleNavigation.vue, HeroSection.vue, NavBar.vue onMounted.  A mounting
\* SimpleNavigation is a new instance: its activeSection is ref('hero') when
\* the hook calls updateActiveSection.
MountTheme(c) ==
    /\ pending # <<>>
    /\ Head(pending) = c
    /\ c \in ThemeComps
    /\ pending' = Tail(pending)
    /\ \E getThrows \in BOOLEAN, setThrows \in BOOLEAN :
         LET eff     == mountTheme(c, getItem("theme"), Dom, setThrows)
             escaped == getThrows \/ eff.threw
         IN  /\ currentTheme' =
                    [currentTheme EXCEPT ![c] = IF getThrows THEN "light" ELSE eff.mem]
             /\ dataTheme' = IF getThrows THEN dataTheme ELSE eff.attr
             /\ storage' = IF getThrows THEN storage ELSE eff.store
             /\ AfterHandler(c, escaped)
             /\ IF c = "SimpleNavigation" /\ ~escaped
                THEN /\ scrollListeners' = scrollListeners + 1
                     /\ activeSection' =
                            updateActiveSection(sections[1], scrollY, Present)
                ELSE UNCHANGED <<scrollListeners, activeSection>>
             /\ lastOp' = Op("mount", c, getThrows, ~getThrows /\ eff.threw, FALSE)
    /\ pre' = Snap(c)
    /\ pre2' = NoSnap
    /\ UNCHANGED <<app, showSnow, scrollY, gap, scrollTarget, navCall, lastSet,
                   revealVars, utilVars>>

\* App.vue onMounted: load the snow preference
MountApp ==
    /\ pending # <<>>
    /\ Head(pending) = "App"
    /\ pending' = Tail(pending)
    /\ \E getThrows \in BOOLEAN, setThrows \in BOOLEAN :
         LET eff     == mountSnow(getItem("showSnow"), Dom, setThrows)
             escaped == getThrows \/ eff.threw
         IN  /\ showSnow' = IF getThrows THEN TRUE ELSE eff.mem
             /\ storage' = IF getThrows THEN storage ELSE eff.store
             /\ AfterHandler("App", escaped)
             /\ lastOp' = Op("mount", "App", getThrows, ~getThrows /\ eff.threw, FALSE)
    /\ pre' = Snap("App")
    /\ pre2' = NoSnap
    /\ UNCHANGED <<app, dataTheme, currentTheme, spyVars, lastSet, revealVars, utilVars>>

----------------------------------------------------------------------------
(* Toggles *)

\* Whether this toggle is the second of two completed toggles in a row by
\* the same component.
Second(op, c, threw) ==
    lastOp.op = op /\ lastOp.who = c /\ ~lastOp.escaped /\ ~threw

\* toggleTheme of SimpleNavigation.vue, HeroSection.vue or NavBar.vue,
\* whatever event it handles
ToggleThemeHandler(c) ==
    /\ pending = <<>>
    /\ c \in ThemeComps \cap mounted
    /\ \E setThrows \in BOOLEAN :
         LET eff == toggleTheme(c, currentTheme[c], Dom, setThrows)
         IN  /\ currentTheme' = [currentTheme EXCEPT ![c] = eff.mem]
             /\ dataTheme' = eff.attr
             /\ storage' = eff.store
             /\ AfterHandler(c, eff.threw)
             /\ scrollListeners' =
                    IF c = "SimpleNavigation" /\ eff.threw /\ Captured(c)
                    THEN removeScrollListener(scrollListeners) ELSE scrollListeners
             /\ lastOp' = Op("toggleTheme", c, FALSE, eff.threw,
                             Second("toggleTheme", c, eff.threw))
             /\ pre2' = IF Second("toggleTheme", c, eff.threw) THEN pre ELSE NoSnap
             /\ lastSet' = [lastSet EXCEPT !.theme =
                              IF eff.threw THEN NoSet
                              ELSE [val |-> eff.mem, reloaded |-> FALSE]]
    /\ pre' = Snap(c)
    /\ UNCHANGED <<app, pending, showSnow, scrollY, activeSection, gap,
                   scrollTarget, navCall, revealVars, toolVars>>

\* A click on a theme button
ToggleTheme(c) == ToggleThemeHandler(c) /\ UNCHANGED tap

\* App.vue toggleSnow, reached from its own button (legacy) or from
\* HeroSection's emit('toggleSnow') (current), whatever event it handles
ToggleSnowHandler ==
    /\ pending = <<>>
    /\ "App" \in mounted
    /\ app = "current" => "HeroSection" \in mounted
    /\ \E setThrows \in BOOLEAN :
         LET eff  == toggleSnow(showSnow, Dom, setThrows)
             from == IF app = "current" THEN "HeroSection" ELSE "App"
         IN  /\ showSnow' = eff.mem
             /\ storage' = eff.store
             /\ AfterHandler(from, eff.threw)
             /\ lastOp' = Op("toggleSnow", "App", FALSE, eff.threw,
                             Second("toggleSnow", "App", eff.threw))
             /\ pre2' = IF Second("toggleSnow", "App", eff.threw) THEN pre ELSE NoSnap
             /\ lastSet' = [lastSet EXCEPT !.showSnow =
                              IF eff.threw THEN NoSet
                              ELSE [val |-> BoolToString(eff.mem), reloaded |-> FALSE]]
    /\ pre' = Snap("App")
    /\ UNCHANGED <<app, pending, dataTheme, currentTheme, spyVars, revealVars,
                   toolVars>>

\* A click on a snow button
ToggleSnow == ToggleSnowHandler /\ UNCHANGED tap

----------------------------------------------------------------------------
(* A tap on one of HeroSection's mobile buttons.  The buttons bind the     *)
(* same function to @touchstart and to @click; the browser follows the     *)
(* touchstart of a tap with a click on the same button unless the          *)
(* touchstart handler called preventDefault or the button is gone.         *)

\* No tap is half way: no click is still to come.
BetweenTaps == tap.stage # "clickDue"

\* touchstart on the mobile theme button: toggleTheme takes no event and
\* prevents nothing, so the click follows while the button is there.
TouchStartTheme ==
    /\ BetweenTaps
    /\ app = "current"
    /\ ToggleThemeHandler("HeroSection")
    /\ tap' = [stage  |-> IF "HeroSection" \in mounted' THEN "clickDue" ELSE "done",
               kind   |-> "theme",
               before |-> Snap("HeroSection")]

\* The click that ends the tap on the mobile theme button.
ClickTheme ==
    /\ tap.stage = "clickDue"
    /\ ToggleThemeHandler("HeroSection")
    /\ tap' = [tap EXCEPT !.stage = "done"]

\* touchstart on the mobile snow button: toggleSnow(event) calls
\* event.preventDefault(), and no click follows.
TouchStartSnow ==
    /\ BetweenTaps
    /\ app = "current"
    /\ ToggleSnowHandler
    /\ tap' = [stage |-> "done", kind |-> "snow", before |-> Snap("App")]

----------------------------------------------------------------------------
(* ErrorBoundary.vue retry, and a reload of the page *)

\* retry: the fallback is dropped, the slot renders again and the wrapped
\* component's mounted hook is scheduled.
Retry(c) ==
    /\ pending = <<>>
    /\ c \in hasError
    /\ hasError' = hasError \ {c}
    /\ pending' = <<c>>
    /\ lastOp' = Op("retry", c, FALSE, FALSE, FALSE)
    /\ pre' = NoSnap
    /\ pre2' = NoSnap
    /\ UNCHANGED <<prefVars, app, mounted, spyVars, lastSet, faulted, revealVars, utilVars>>

\* The page is loaded again: memory and the document are new, localStorage
\* is what the last session left.  A legacy page may come back as the
\* current one.
Reload ==
    /\ pending = <<>>
    /\ \E a \in {app, "current"} :
         /\ app' = a
         /\ pending' = MountOrder(a)
    /\ mounted' = {}
    /\ hasError' = {}
    /\ dataTheme' = Null
    /\ currentTheme' = [c \in ThemeComps |-> "light"]
    /\ showSnow' = TRUE
    /\ scrollListeners' = 0
    /\ scrollY' = 0
    /\ activeSection' = "hero"
    /\ scrollTarget' = NoTarget
    /\ navCall' = Null
    /\ reveal' = [s \in RevealComps |-> NoReveal]
    /\ lastEntry' = NoEntry
    /\ lastOp' = Op("load", "page", FALSE, FALSE, FALSE)
    /\ pre' = NoSnap
    /\ pre2' = NoSnap
    /\ lastSet' = [k \in DOMAIN lastSet |->
                     [lastSet[k] EXCEPT !.reloaded = (lastSet[k].val # Null)]]
    /\ UNCHANGED <<storage, faulted, gap, ioAvailable, utilVars>>

----------------------------------------------------------------------------
(* Scrolling and the scroll-spy *)

\* Ids scrollToSection is called with: the navigation buttons' sections,
\* and an id no element has.
NavIds == SectionIds \cup {"nonexistent"}

\* A scroll event at position y: handleScroll runs if it is registered.
Sample(y) ==
    IF scrollListeners > 0 THEN updateActiveSection(activeSection, y, Present)
    ELSE activeSection

\* Bookkeeping shared by the scroll actions.
SpyStep(op, who) ==
    /\ lastOp' = Op(op, who, FALSE, FALSE, FALSE)
    /\ pre' = NoSnap
    /\ pre2' = NoSnap
    /\ UNCHANGED <<prefVars, lifeVars, scrollListeners, gap, lastSet, faulted,
                   revealVars, utilVars>>

\* The user scrolls the page to y; a smooth scroll in flight is abandoned.
Scroll ==
    /\ pending = <<>>
    /\ app = "current"
    /\ \E y \in ScrollPositions \ {scrollY} :
         /\ scrollY' = y
         /\ activeSection' = Sample(y)
    /\ scrollTarget' = NoTarget
    /\ navCall' = Null
    /\ SpyStep("scroll", "window")

\* Toward: y lies on the way from the current position to the target.
Toward(y) ==
    \/ scrollY < y /\ y <= scrollTarget
    \/ scrollTarget <= y /\ y < scrollY

\* One frame of the browser's smooth scroll: the page moves toward the
\* target, the scroll event fires, and the scroll ends when it gets there.
AnimStep ==
    /\ pending = <<>>
    /\ scrollTarget # NoTarget
    /\ \E y \in ScrollPositions :
         /\ Toward(y)
         /\ scrollY' = y
         /\ activeSection' = Sample(y)
         /\ scrollTarget' = IF y = scrollTarget THEN NoTarget ELSE scrollTarget
         /\ SpyStep(IF y = scrollTarget THEN "settle" ELSE "animate", "window")
    /\ UNCHANGED navCall

\* window.scrollTo({top, behavior: 'smooth'}): the new target replaces the
\* one in flight; nothing moves when the page is already there.
ScrollCommand(target) ==
    scrollTarget' = IF target = scrollY THEN NoTarget ELSE target

\* SimpleNavigation.vue scrollToSection(sectionId), from a navigation button
ScrollToSection(id) ==
    /\ pending = <<>>
    /\ "SimpleNavigation" \in mounted
    /\ id \in NavIds
    /\ LET r == scrollToSection(id, activeSection, Present)
       IN  /\ activeSection' = r.active
           /\ IF r.found
              THEN ScrollCommand(r.target) /\ navCall' = id
              ELSE UNCHANGED <<scrollTarget, navCall>>
    /\ UNCHANGED scrollY
    /\ SpyStep("scrollToSection", id)

\* HeroSection.vue handleNavigate(sectionId), from its two buttons
HandleNavigate(id) ==
    /\ pending = <<>>
    /\ "HeroSection" \in mounted
    /\ id \in {"projects", "contact"}
    /\ LET r == handleNavigate(id, activeSection, Present)
       IN  /\ activeSection' = r.active
           /\ IF r.found
              THEN ScrollCommand(r.target) /\ navCall' = Null
              ELSE UNCHANGED <<scrollTarget, navCall>>
    /\ UNCHANGED scrollY
    /\ SpyStep("handleNavigate", id)

----------------------------------------------------------------------------
(* Intersection-triggered reveal *)

\* Visible ratios an intersection entry may report, in percent.
Ratios == {0, 10, 20, 30, 100}

\* The observer's threshold, in percent (0.2, TechIconGrid 0.3).
Threshold(s) == IF s = "TechIconGrid" THEN 30 ELSE 20

\* The entries an observer of component s may deliver.  At or above the
\* threshold entry.isIntersecting is true.  Below it the engines differ:
\* the ones that derive the flag from the thresholds report false, the
\* W3C algorithm and the intersection-observer polyfill that
\* BrowserCompat loads report true for any overlap or adjacency.
Entries(s) ==
    {e \in [ratio : Ratios, isIntersecting : BOOLEAN] :
        e.ratio >= Threshold(s) => e.isIntersecting}

\* The callback of ProjectsSection calls observer.unobserve(entry.target).
Unobserves(s) == s = "ProjectsSection"

\* onIntersect that copies entry.isIntersecting into the flag.
onIntersect_Follows(flag, isIntersecting) == isIntersecting

\* The observer callback: if (entry.isIntersecting) isVisible.value = true
onIntersect(flag, isIntersecting) == IF isIntersecting THEN TRUE ELSE flag

\* How many unmount/remount cycles of a component with a live observer
\* are followed.
MaxLeaked == 2

\* AboutSection renders TechIconGrid: the two mount and unmount together.
Group(s) == IF s = "AboutSection" THEN {"AboutSection", "TechIconGrid"} ELSE {s}

RevealStep(op, who, escaped) ==
    /\ lastOp' = [Op(op, who, FALSE, FALSE, FALSE) EXCEPT !.escaped = escaped]
    /\ UNCHANGED <<prefVars, lifeVars, spyVars, pre, pre2, lastSet, faulted,
                   utilVars>>

\* BrowserCompat.loadIntersectionObserverPolyfill: the dynamic import that
\* main.ts starts and does not await before app.mount has resolved.
PolyfillLoaded ==
    /\ ~ioAvailable
    /\ ioAvailable' = TRUE
    /\ UNCHANGED <<reveal, lastEntry>>
    /\ RevealStep("polyfill", "window", FALSE)

\* onMounted of a reveal component: a new observer observes its element.
\* Without IntersectionObserver the constructor call throws a
\* ReferenceError; the ErrorBoundary around the section captures it and
\* replaces the section (and the grids in it) with its fallback.
RevealMount(s) ==
    /\ s \in RevealComps \ {"TechIconGrid"}
    /\ ~reveal[s].mounted
    /\ reveal' = [t \in RevealComps |->
                    IF t \in Group(s) /\ ioAvailable
                    THEN [reveal[t] EXCEPT !.mounted = TRUE, !.isVisible = FALSE,
                                           !.observing = TRUE]
                    ELSE reveal[t]]
    /\ UNCHANGED <<lastEntry, ioAvailable>>
    /\ RevealStep("revealMount", s, ~ioAvailable)

\* The observer of component s delivers an entry for its element.
Intersect(s) ==
    /\ reveal[s].mounted
    /\ reveal[s].observing
    /\ \E e \in Entries(s) :
         /\ reveal' = [reveal EXCEPT
                ![s].isVisible = onIntersect(reveal[s].isVisible, e.isIntersecting),
                ![s].observing = ~(e.isIntersecting /\ Unobserves(s))]
         /\ lastEntry' = [who |-> s, ratio |-> e.ratio,
                          isIntersecting |-> e.isIntersecting,
                          was |-> reveal[s].isVisible]
    /\ UNCHANGED ioAvailable
    /\ RevealStep("intersect", s, FALSE)

\* The component is unmounted (its ErrorBoundary shows the fallback).  No
\* reveal component has teardown for its observer: one that still observes
\* goes on observing.
RevealUnmount(s) ==
    /\ s \in RevealComps \ {"TechIconGrid"}
    /\ reveal[s].mounted
    /\ \A t \in Group(s) : reveal[t].observing => reveal[t].leaked < MaxLeaked
    /\ reveal' = [t \in RevealComps |->
                    IF t \in Group(s)
                    THEN [mounted |-> FALSE, isVisible |-> FALSE, observing |-> FALSE,
                          leaked |-> reveal[t].leaked
                                       + (IF reveal[t].observing THEN 1 ELSE 0)]
                    ELSE reveal[t]]
    /\ UNCHANGED <<lastEntry, ioAvailable>>
    /\ RevealStep("revealUnmount", s, FALSE)

Next ==
    \/ \E c \in ThemeComps : MountTheme(c)
    \/ MountApp
    \/ \E c \in ThemeComps : ToggleTheme(c)
    \/ ToggleSnow
    \/ \E c \in Bounded : Retry(c)
    \/ Reload

Spec == Init /\ [][Next]_vars

\* The current page with a fixed store, for the scroll-spy.
SpyInit ==
    /\ storage = [theme |-> "light", showSnow |-> "true"]
    /\ Fresh("current")
    /\ gap \in {0, Gap}
    /\ ioAvailable = TRUE
    /\ UtilIdle
    /\ lastOp = Op("load", "page", FALSE, FALSE, FALSE)
    /\ pre = NoSnap
    /\ pre2 = NoSnap
    /\ lastSet = [theme |-> NoSet, showSnow |-> NoSet]
    /\ faulted = FALSE

SpyNext ==
    \/ \E c \in Bounded : MountTheme(c)
    \/ MountApp
    \/ ToggleTheme("SimpleNavigation")
    \/ \E c \in Bounded : Retry(c)
    \/ Scroll
    \/ AnimStep
    \/ \E id \in NavIds : ScrollToSection(id)
    \/ \E id \in SectionIds : HandleNavigate(id)
    \/ Reload

SpecSpy == SpyInit /\ [][SpyNext]_vars

\* The current page on a touch device.
TapInit ==
    /\ storage \in [theme : StoredThemes, showSnow : StoredSnow]
    /\ Fresh("current")
    /\ gap = 0
    /\ ioAvailable = TRUE
    /\ UtilIdle
    /\ lastOp = Op("load", "page", FALSE, FALSE, FALSE)
    /\ pre = NoSnap
    /\ pre2 = NoSnap
    /\ lastSet = [theme |-> NoSet, showSnow |-> NoSet]
    /\ faulted = FALSE

TapNext ==
    \/ \E c \in Bounded : MountTheme(c)
    \/ MountApp
    \/ TouchStartTheme
    \/ ClickTheme
    \/ TouchStartSnow
    \/ BetweenTaps /\ \E c \in Bounded : Retry(c)

SpecTap == TapInit /\ [][TapNext]_vars

\* The current page, for the reveal components.
RevealInit ==
    /\ storage = [theme |-> "light", showSnow |-> "true"]
    /\ Fresh("current")
    /\ gap = 0
    /\ ioAvailable \in BOOLEAN
    /\ UtilIdle
    /\ lastOp = Op("load", "page", FALSE, FALSE, FALSE)
    /\ pre = NoSnap
    /\ pre2 = NoSnap
    /\ lastSet = [theme |-> NoSet, showSnow |-> NoSet]
    /\ faulted = FALSE

RevealNext ==
    \/ PolyfillLoaded
    \/ \E s \in RevealComps : RevealMount(s)
    \/ \E s \in RevealComps : Intersect(s)
    \/ \E s \in RevealComps : RevealUnmount(s)

SpecReveal == RevealInit /\ [][RevealNext]_vars

----------------------------------------------------------------------------
(* Properties of the preference handling *)

BothMounted == {"SimpleNavigation", "HeroSection"} \subseteq mounted

Completed(op) == lastOp.op = op /\ ~lastOp.escaped

\* C1: with SimpleNavigation and HeroSection both mounted, after a
\* toggleTheme from either one, every component's currentTheme equals the
\* value last written to localStorage 'theme' and to data-theme (stated for
\* sessions in which no localStorage call has thrown).
C1_SingleSourceOfTruth ==
    (BothMounted /\ Completed("toggleTheme") /\ ~faulted)
        => \A c \in {"SimpleNavigation", "HeroSection"} :
              /\ currentTheme[c] = storage.theme
              /\ currentTheme[c] = dataTheme

\* C2: right after a toggle that completed, the toggling component's value
\* is the persisted one (localStorage 'theme' = currentTheme and data-theme
\* the same; localStorage 'showSnow' = the text of showSnow).
C2_WriteThrough ==
    /\ Completed("toggleTheme")
          => /\ storage.theme = currentTheme[lastOp.who]
             /\ dataTheme = currentTheme[lastOp.who]
    /\ Completed("toggleSnow")
          => storage.showSnow = BoolToString(showSnow)

\* A snow toggle has just completed in a session whose last theme toggle
\* left 'dark'.
C2_Witness ==
    /\ Completed("toggleSnow")
    /\ showSnow = FALSE
    /\ lastSet.theme = [val |-> "dark", reloaded |-> FALSE]

\* C3: whatever localStorage held, every currentTheme and the data-theme
\* attribute (once set) are 'light' or 'dark' and showSnow is a boolean
\* (stated for sessions in which no localStorage call has thrown).
C3_EnumeratedValues ==
    ~faulted =>
    /\ \A c \in ThemeComps : currentTheme[c] \in ThemeOptions
    /\ dataTheme \in ThemeOptions \cup {Null}
    /\ showSnow \in BOOLEAN

\* C4: when getItem throws in a mounted hook the error is caught: nothing
\* escapes the hook, the default is in memory and the rest of the hook ran
\* (SimpleNavigation's scroll listener is attached).
C4_ReadFailureCaught ==
    (lastOp.op = "mount" /\ lastOp.getThrew)
        => /\ ~lastOp.escaped
           /\ lastOp.who \in ThemeComps => currentTheme[lastOp.who] = "light"
           /\ lastOp.who = "App" => showSnow = TRUE
           /\ lastOp.who = "SimpleNavigation" => scrollListeners > 0

\* C5: when setItem throws in a toggle the new value is in memory (and on
\* data-theme for the theme) and nothing escapes the handler.
C5_WriteFailureContained ==
    /\ (lastOp.op = "toggleTheme" /\ lastOp.setThrew)
          => /\ ~lastOp.escaped
             /\ currentTheme[lastOp.who] # pre.mem
             /\ dataTheme = currentTheme[lastOp.who]
    /\ (lastOp.op = "toggleSnow" /\ lastOp.setThrew)
          => /\ ~lastOp.escaped
             /\ BoolToString(showSnow) # pre.mem

\* C6: a mounted hook that finds no stored value leaves theme 'light' with
\* data-theme 'light', and snow on.
C6_DefaultFallback ==
    (Completed("mount") /\ pre.stored = Null)
        => /\ lastOp.who \in ThemeComps
                => currentTheme[lastOp.who] = "light" /\ dataTheme = "light"
           /\ lastOp.who = "App" => showSnow = TRUE

\* App.vue mounted with no 'showSnow' stored, after a theme component
\* mounted with no 'theme' stored.
C6_Witness ==
    /\ Completed("mount")
    /\ lastOp.who = "App"
    /\ pre.stored = Null
    /\ showSnow = TRUE
    /\ storage.theme = Null
    /\ dataTheme = "light"
    /\ currentTheme["HeroSection"] = "light"
    /\ "HeroSection" \in mounted

\* C7: a stored value that does not parse is replaced by the default at
\* mount: 'showSnow' neither "true" nor "false" gives snow on, 'theme'
\* neither "light" nor "dark" gives 'light'.
C7_UnparsableFallsBack ==
    (Completed("mount") /\ ~faulted)
        => /\ (lastOp.who \in ThemeComps /\ pre.stored \notin ThemeOptions)
                => currentTheme[lastOp.who] = "light"
           /\ (lastOp.who = "App" /\ pre.stored \notin {"true", "false"})
                => showSnow = TRUE

\* C8: after a toggle left the theme at a value v (in particular 'dark'),
\* or the snow preference at v, and the page was reloaded, a mounted hook
\* that reads storage initialises the in-memory preference to v.
C8_RoundTripAcrossReload ==
    Completed("mount")
        => /\ (lastOp.who \in ThemeComps /\ lastSet.theme.reloaded)
                => currentTheme[lastOp.who] = lastSet.theme.val
           /\ (lastOp.who = "App" /\ lastSet.showSnow.reloaded)
                => BoolToString(showSnow) = lastSet.showSnow.val

\* SimpleNavigation mounted after a reload that followed a toggle to 'dark'.
C8_Witness ==
    /\ Completed("mount")
    /\ lastOp.who = "SimpleNavigation"
    /\ lastSet.theme = [val |-> "dark", reloaded |-> TRUE]
    /\ currentTheme["SimpleNavigation"] = "dark"

C10_ApplyIdempotent ==
    /\ (lastOp.who = "NavBar" /\ lastOp.op \in {"mount", "toggleTheme"}
          /\ ~lastOp.escaped)
          => LET v     == currentTheme["NavBar"]
                 again == applyTheme(Dom, v, FALSE)
             IN  /\ again.attr = dataTheme
                 /\ again.store = storage
                 /\ SavedTheme(getItem("theme")) = v
                 /\ (lastOp.op = "mount" /\ Truthy(pre.stored))
                        => storage.theme = pre.stored
    /\ (lastOp.who = "App" /\ lastOp.op \in {"mount", "toggleSnow"}
          /\ ~lastOp.escaped)
          => LET again == applyShowSnow(Dom, showSnow, FALSE)
             IN  /\ again.attr = dataTheme
                 /\ again.store = storage
                 /\ SavedSnow(getItem("showSnow")) = showSnow

\* NavBar's toggle has just applied 'dark' over a stored 'light'.
C10_Witness ==
    /\ Completed("toggleTheme")
    /\ lastOp.who = "NavBar"
    /\ pre.stored = "light"
    /\ currentTheme["NavBar"] = "dark"

----------------------------------------------------------------------------
(* Properties of the scroll-spy (SpecSpy) *)

ScrollOps == {"scroll", "animate", "settle"}

\* A scroll event has just been handled by a registered handleScroll.
Sampled == lastOp.op \in ScrollOps /\ scrollListeners > 0

\* Sections whose element exists and contains position y + 100.
Containing(y) ==
    {id \in Present : /\ SectionTop(id) <= y + lookAhead
                      /\ y + lookAhead < SectionTop(id) + offsetHeight}

\* Sections whose element exists and whose top less the navigation bar's
\* height is at most y + 100.
Qualifying(y) ==
    {id \in Present : SectionTop(id) - navHeight <= y + lookAhead}

FirstOf(S) == CHOOSE id \in S : \A o \in S : Order(id) <= Order(o)

LastOf(S) == CHOOSE id \in S : \A o \in S : Order(o) <= Order(id)

\* The layout of three sections at 0, 1000 and 2000 with no gaps.
LayoutOfThree ==
    /\ gap = 0
    /\ {"hero", "about", "projects"} \subseteq Present
    /\ SectionTop("hero") = 0
    /\ SectionTop("about") = 1000
    /\ SectionTop("projects") = 2000

\* C11 as stated: on every scroll sample the active section becomes the
\* last section in document order whose top minus 80 is at most the scroll
\* position plus 100.
C11_LastQualifying ==
    (Sampled /\ Qualifying(scrollY) # {})
        => activeSection = LastOf(Qualifying(scrollY))

\* C11 as amended: on every scroll sample the active section becomes the
\* first section in document order whose element exists and whose extent
\* from its top to its top plus its height contains the scroll position
\* plus 100; the navigation bar's height plays no part.
C11_FirstContaining ==
    (Sampled /\ Containing(scrollY) # {})
        => activeSection = FirstOf(Containing(scrollY))

\* A sample at 850 with no gaps: 'about' qualifies by the stated rule
\* (920 <= 950) and 'hero', which contains 950, is active.
C11_Witness ==
    /\ Sampled
    /\ gap = 0
    /\ scrollY = 850
    /\ "about" \in Qualifying(scrollY)
    /\ activeSection = "hero"

\* C12 as stated: with sections at 0, 1000 and 2000 the second is active
\* at scroll positions 920, 921 and 950 and the first at 919.
C12_BoundaryAt920 ==
    (Sampled /\ LayoutOfThree)
        => /\ scrollY \in {920, 921, 950} => activeSection = "about"
           /\ scrollY = 919 => activeSection = "hero"

\* C12 as amended: with sections at 0, 1000 and 2000 the second is active
\* at scroll positions 920, 921 and 950 and also at 919 and 900; the first
\* is active at 899 (the section at 1000 is entered when 1000 is at most
\* the scroll position plus 100).
C12_BoundaryAt900 ==
    (Sampled /\ LayoutOfThree)
        => /\ scrollY \in {900, 919, 920, 921, 950} => activeSection = "about"
           /\ scrollY = 899 => activeSection = "hero"

\* A sample at 919 in that layout, which leaves the second section active.
C12_Witness ==
    /\ Sampled
    /\ LayoutOfThree
    /\ scrollY = 919
    /\ activeSection = "about"

\* C13: a scroll sample at a position no section contains leaves
\* activeSection as it was.
C13_NoMatchHolds ==
    [][(lastOp'.op \in ScrollOps /\ Containing(scrollY') = {})
          => activeSection' = activeSection]_vars

\* A sample whose position lies in the gap below 'hero' was handled while
\* 'about' was active, and 'about' still is.
C13_Witness ==
    /\ Sampled
    /\ gap = Gap
    /\ Containing(scrollY) = {}
    /\ activeSection = "about"

\* C14: activeSection starts as 'hero' and is always the id of one of the
\* four sections, whatever scroll samples, scrollToSection calls (also for
\* ids no element has) and mounts and unmounts happened.
C14_ActiveIsASection ==
    /\ activeSection \in SectionIds
    /\ lastOp.op = "load" => activeSection = sections[1]

\* scrollToSection was called with an id no element has while another
\* section than the first was active.
C14_Witness ==
    /\ lastOp.op = "scrollToSection"
    /\ lastOp.who = "nonexistent"
    /\ activeSection = "projects"

\* C15: scrollToSection(id) for a section present in the document requests
\* a smooth scroll to max(0, top - 80) and sets activeSection to id in the
\* same call.
C15_ScrollToSection ==
    (lastOp.op = "scrollToSection" /\ lastOp.who \in Present)
        => LET top  == SectionTop(lastOp.who)
               goal == IF top - navHeight < 0 THEN 0 ELSE top - navHeight
           IN  /\ activeSection = lastOp.who
               /\ navCall = lastOp.who
               /\ scrollTarget = goal \/ (scrollTarget = NoTarget /\ scrollY = goal)

\* scrollToSection('hero') called away from the top: the target is floored
\* at 0.
C15_Witness ==
    /\ lastOp.op = "scrollToSection"
    /\ lastOp.who = "hero"
    /\ scrollY = 950
    /\ scrollTarget = 0
    /\ activeSection = "hero"

\* C16: when the smooth scroll started by the last scrollToSection(id) has
\* settled at its target, with SimpleNavigation mounted, the scroll sample
\* taken there leaves activeSection = id.
C16_SettledConfirms ==
    (lastOp.op = "settle" /\ "SimpleNavigation" \in mounted /\ navCall \in SectionIds)
        => /\ activeSection = navCall
           /\ scrollTarget = NoTarget
           /\ scrollY = Max(0, SectionTop(navCall) - navHeight)

\* The scroll to 'contact' has settled.
C16_Witness ==
    /\ lastOp.op = "settle"
    /\ "SimpleNavigation" \in mounted
    /\ navCall = "contact"
    /\ activeSection = "contact"

\* C17: scrollToSection(id) (and handleNavigate(id)) for an id no element
\* has does not throw, issues no scroll command and leaves activeSection
\* unchanged.
C17_MissingElementNoOp ==
    [][(lastOp'.op \in {"scrollToSection", "handleNavigate"}
          /\ lastOp'.who \notin Present)
          => /\ activeSection' = activeSection
             /\ scrollTarget' = scrollTarget
             /\ scrollY' = scrollY
             /\ ~lastOp'.escaped]_vars

\* scrollToSection('hero') was called while the hero section's element is
\* missing and a smooth scroll is in flight.
C17_Witness ==
    /\ lastOp.op = "scrollToSection"
    /\ lastOp.who = "hero"
    /\ "hero" \notin Present
    /\ scrollTarget # NoTarget
    /\ activeSection # "hero"

\* C18: exactly one scroll listener is registered while SimpleNavigation is
\* mounted and none once it is unmounted, and scroll events after the
\* unmount change nothing in activeSection.
C18_ScrollListenerDisposed ==
    /\ [](scrollListeners = IF "SimpleNavigation" \in mounted THEN 1 ELSE 0)
    /\ [][(lastOp'.op \in ScrollOps /\ "SimpleNavigation" \notin mounted)
            => activeSection' = activeSection /\ ~lastOp'.escaped]_vars

\* A scroll event after SimpleNavigation, which had been mounted and
\* toggled, was unmounted.
C18_Witness ==
    /\ lastOp.op \in ScrollOps
    /\ "SimpleNavigation" \in hasError
    /\ currentTheme["SimpleNavigation"] = "dark"
    /\ scrollListeners = 0
    /\ scrollY >= SectionTop("projects") - navHeight
    /\ activeSection = "hero"

----------------------------------------------------------------------------
(* Properties of the reveal components (SpecReveal) *)

\* C19: a reveal flag is false at mount and, while the component stays
\* mounted, never goes from true to false, whatever intersection entries
\* arrive.
C19_OneShotReveal ==
    [][\A s \in RevealComps :
          /\ (reveal[s].mounted /\ reveal'[s].mounted /\ reveal[s].isVisible)
                => reveal'[s].isVisible
          /\ (~reveal[s].mounted /\ reveal'[s].mounted)
                => ~reveal'[s].isVisible]_vars

\* AboutSection, already revealed, got an entry that does not intersect
\* and is still revealed.
C19_Witness ==
    /\ lastOp.op = "intersect"
    /\ lastEntry = [who |-> "AboutSection", ratio |-> 0,
                    isIntersecting |-> FALSE, was |-> TRUE]
    /\ reveal["AboutSection"].isVisible

\* C20: in every reveal component the element is no longer observed once
\* the reveal flag is true.
C20_DetachedOnceRevealed ==
    \A s \in RevealComps :
        (reveal[s].mounted /\ reveal[s].isVisible) => ~reveal[s].observing

\* C21: after a reveal component is unmounted, whether or not its reveal
\* had fired, no observer it created is still observing.
C21_ObserversDisposed ==
    \A s \in RevealComps : reveal[s].leaked = 0

\* C22: the reveal flag is set only by an entry whose visible ratio is at
\* least the component's threshold.
C22_RevealAtThreshold ==
    (/\ lastOp.op = "intersect"
     /\ ~lastEntry.was
     /\ reveal[lastEntry.who].isVisible)
        => lastEntry.ratio >= Threshold(lastEntry.who)

\* C23: a reveal section mounted while IntersectionObserver is unavailable
\* is revealed at once and its mounting raises no error.
C23_RevealedWithoutObserver ==
    (lastOp.op = "revealMount" /\ ~ioAvailable)
        => /\ ~lastOp.escaped
           /\ reveal[lastOp.who].mounted
           /\ reveal[lastOp.who].isVisible

----------------------------------------------------------------------------
(* Properties of a tap (SpecTap) *)

----------------------------------------------------------------------------
(* The page at rest while a utility is exercised *)

PageIdle ==
    /\ storage = [theme |-> "light", showSnow |-> "true"]
    /\ Fresh("current")
    /\ gap = 0
    /\ tap = NoTap
    /\ lastOp = Op("load", "page", FALSE, FALSE, FALSE)
    /\ pre = NoSnap
    /\ pre2 = NoSnap
    /\ lastSet = [theme |-> NoSet, showSnow |-> NoSet]
    /\ faulted = FALSE

PageStill ==
    UNCHANGED <<prefVars, lifeVars, spyVars, reveal, lastEntry, histVars, tap>>

----------------------------------------------------------------------------
(* utils ErrorBoundary: the singleton and its error callbacks *)

\* What a registered callback does when it is called.
CallbackKinds == {"ok", "throws"}

\* Errors handed to handleError.
Errors == {"TypeError", "Test error"}

\* How many callbacks are registered at most.
MaxCallbacks == 3

\* The modules that call ErrorBoundary.getInstance().
Callers == {"main.ts", "ErrorBoundary.vue", "errorHandlingTest.ts"}

\* ErrorBoundary.getInstance: construct the static instance if there is
\* none, return it.  refs holds which instance each caller was given.
getInstance(e, caller) ==
    IF e.made = 0
    THEN [e EXCEPT !.made = 1, !.refs = @ \cup {<<caller, 1>>}]
    ELSE [e EXCEPT !.refs = @ \cup {<<caller, e.made>>}]

\* onError: errorCallbacks.push(callback)
onError(e, callback) == [e EXCEPT !.callbacks = Append(@, callback)]

\* The forEach of handleError without the try/catch: the first callback
\* that throws ends it.
RECURSIVE Deliver_NoCatch(_, _, _, _)
Deliver_NoCatch(callbacks, i, error, acc) ==
    IF i > Len(callbacks) THEN acc
    ELSE IF callbacks[i] = "throws"
         THEN [acc EXCEPT !.delivered = Append(@, <<i, error>>), !.escaped = TRUE]
         ELSE Deliver_NoCatch(callbacks, i + 1, error,
                              [acc EXCEPT !.delivered = Append(@, <<i, error>>)])

\* The forEach of handleError: call each callback in a try/catch that logs
\* what the callback throws.
RECURSIVE Deliver(_, _, _, _)
Deliver(callbacks, i, error, acc) ==
    IF i > Len(callbacks) THEN acc
    ELSE Deliver(callbacks, i + 1, error,
                 [acc EXCEPT !.delivered = Append(@, <<i, error>>),
                             !.caught = @ + (IF callbacks[i] = "throws" THEN 1 ELSE 0)])

\* handleError(error, errorInfo)
handleError(e, error) ==
    LET done == Deliver(e.callbacks, 1, error,
                        [delivered |-> <<>>, caught |-> 0, escaped |-> FALSE])
    IN  [e EXCEPT !.delivered = done.delivered, !.caught = done.caught,
                  !.escaped = done.escaped, !.handled = TRUE]

ErrStep == PageStill /\ UNCHANGED <<ioAvailable, net, vp, lz, img, sw>>

\* The callers that hold a reference.
Holders == {r[1] : r \in errs.refs}

\* A module calls ErrorBoundary.getInstance().
GetInstance(caller) ==
    /\ caller \notin Holders
    /\ errs' = getInstance(errs, caller)
    /\ ErrStep

\* A caller registers a callback through its reference.
OnError(caller, callback) ==
    /\ caller \in Holders
    /\ Len(errs.callbacks) < MaxCallbacks
    /\ errs' = [onError(errs, callback) EXCEPT !.handled = FALSE]
    /\ ErrStep

\* A caller reports an error through its reference.
HandleError(caller, error) ==
    /\ caller \in Holders
    /\ errs' = handleError(errs, error)
    /\ ErrStep

ErrInit == PageIdle /\ ioAvailable = TRUE /\ UtilIdle

ErrNext ==
    \/ \E caller \in Callers : GetInstance(caller)
    \/ \E caller \in Callers, callback \in CallbackKinds : OnError(caller, callback)
    \/ \E caller \in Callers, error \in Errors : HandleError(caller, error)

SpecErr == ErrInit /\ [][ErrNext]_vars

\* C24: handleError calls every registered callback exactly once, in
\* registration order and with the error, also after a callback threw, and
\* throws nothing itself; getInstance never makes a second instance.
C24_EveryCallbackOnce ==
    /\ errs.made <= 1
    /\ Cardinality({r[2] : r \in errs.refs}) <= 1
    /\ errs.handled =>
          /\ ~errs.escaped
          /\ Len(errs.delivered) = Len(errs.callbacks)
          /\ \A i \in 1..Len(errs.callbacks) :
                /\ errs.delivered[i][1] = i
                /\ errs.delivered[i][2] = errs.delivered[1][2]

\* Three callbacks, the first of which throws, have all been called.
C24_Witness ==
    /\ errs.handled
    /\ Holders = Callers
    /\ errs.callbacks = <<"throws", "ok", "ok">>
    /\ errs.caught = 1
    /\ Len(errs.delivered) = 3

----------------------------------------------------------------------------
(* NetworkErrorHandler.fetchWithRetry *)

\* private static retryAttempts
retryAttempts == 3

\* The largest attempts argument passed.
MaxAttempts == 4

\* The attempts argument of a call: given, or the default.
AttemptsArgs == (0 - 1)..MaxAttempts

\* How a fetch ends: a response with ok, a response without ok, a rejection.
Outcomes == {"ok", "http", "neterr"}

NoResult == [kind |-> Null, of |-> 0]

\* The catch block's test with the comparison off by one.
ShouldRetry_OneMore(attempts) == attempts > 0

\* The catch block's test: if (attempts > 1)
ShouldRetry(attempts) == attempts > 1

\* The call of fetchWithRetry, up to its first await: fetch is called.
fetchWithRetry(attempts) ==
    [phase |-> "fetching", asked |-> attempts, attempts |-> attempts,
     calls |-> 1, outcomes |-> <<>>, result |-> NoResult]

NetStep == PageStill /\ UNCHANGED <<ioAvailable, errs, vp, lz, img, sw>>

\* NetworkErrorHandler.fetchWithRetry(url) or fetchWithRetry(url, options, n)
FetchWithRetry ==
    /\ net.phase \in {"idle", "resolved", "rejected"}
    /\ \/ net' = fetchWithRetry(retryAttempts)
       \/ \E n \in AttemptsArgs : net' = fetchWithRetry(n)
    /\ NetStep

\* The awaited fetch settles: return the response, or retry after the
\* delay, or rethrow.
FetchSettles(outcome) ==
    /\ net.phase = "fetching"
    /\ LET seen == Append(net.outcomes, outcome)
       IN  net' = IF outcome = "ok"
                  THEN [net EXCEPT !.outcomes = seen, !.phase = "resolved",
                                   !.result = [kind |-> "response", of |-> net.calls]]
                  ELSE IF ShouldRetry(net.attempts)
                  THEN [net EXCEPT !.outcomes = seen, !.phase = "delay"]
                  ELSE [net EXCEPT !.outcomes = seen, !.phase = "rejected",
                                   !.result = [kind |-> "error", of |-> net.calls]]
    /\ NetStep

\* The delay is over: fetchWithRetry(url, options, attempts - 1)
DelayElapsed ==
    /\ net.phase = "delay"
    /\ net' = [net EXCEPT !.phase = "fetching", !.attempts = @ - 1, !.calls = @ + 1]
    /\ NetStep

NetInit == PageIdle /\ ioAvailable = TRUE /\ UtilIdle

NetNext ==
    \/ FetchWithRetry
    \/ \E outcome \in Outcomes : FetchSettles(outcome)
    \/ DelayElapsed

SpecNet == NetInit /\ [][NetNext]_vars

\* C25: fetchWithRetry makes at most max(1, attempts) fetch calls; it
\* resolves with the first response that is ok and fetches no more; when
\* every attempt failed it rejects with the last attempt's error.
C25_BoundedRetry ==
    /\ net.calls <= Max(1, net.asked)
    /\ net.phase = "resolved" =>
          /\ Len(net.outcomes) = net.calls
          /\ net.outcomes[net.calls] = "ok"
          /\ \A i \in 1..(net.calls - 1) : net.outcomes[i] # "ok"
          /\ net.result = [kind |-> "response", of |-> net.calls]
    /\ net.phase = "rejected" =>
          /\ Len(net.outcomes) = net.calls
          /\ net.calls = Max(1, net.asked)
          /\ \A i \in 1..net.calls : net.outcomes[i] # "ok"
          /\ net.result = [kind |-> "error", of |-> net.calls]

\* A default call has failed three times and is rejected with the third
\* attempt's error.
C25_Witness ==
    /\ net.phase = "rejected"
    /\ net.asked = retryAttempts
    /\ net.outcomes = <<"neterr", "http", "neterr">>
    /\ net.result = [kind |-> "error", of |-> 3]

----------------------------------------------------------------------------
(* Mobile viewport height (utils/mobileViewport) *)

\* Values of window.innerHeight.
Heights == {600, 667, 800, 812}

\* How many orientation timers are pending at most.
MaxTimers == 3

\* `${window.innerHeight * 0.01}px`, as whole and hundredths of a pixel.
VhText(h) == [px |-> h \div 100, frac |-> h % 100]

\* setViewportHeight: write --vh on the document root.  A write after
\* cleanupMobileViewport returned is counted.
setViewportHeight(v) ==
    [v EXCEPT !.vh = VhText(v.innerHeight),
              !.lateWrites = @ + (IF v.cleaned THEN 1 ELSE 0)]

\* cleanupMobileViewport: remove the resize and orientationchange
\* listeners.  Timers that handleOrientationChange started are not kept
\* anywhere and stay pending.
cleanupMobileViewport(v) ==
    [v EXCEPT !.listening = FALSE, !.cleaned = TRUE]

VpStep == PageStill /\ UNCHANGED <<ioAvailable, errs, net, lz, img, sw>>

\* initMobileViewport, from App.vue's mounted hook
InitMobileViewport ==
    /\ ~vp.listening
    /\ ~vp.cleaned
    /\ \E h \in Heights :
         vp' = [setViewportHeight([vp EXCEPT !.innerHeight = h])
                    EXCEPT !.listening = TRUE]
    /\ VpStep

\* The window gets another height.  A resize event of window or
\* visualViewport follows: setViewportHeight is the listener while it is
\* registered.
Resize ==
    /\ vp.listening \/ vp.cleaned
    /\ \E h \in Heights \ {vp.innerHeight} :
         LET resized == [vp EXCEPT !.innerHeight = h]
         IN  vp' = IF vp.listening THEN setViewportHeight(resized) ELSE resized
    /\ VpStep

\* The device is turned: the height changes, and the orientationchange
\* event makes handleOrientationChange start a 100 ms timer.
OrientationChange ==
    /\ vp.listening
    /\ vp.timers < MaxTimers
    /\ \E h \in Heights \ {vp.innerHeight} :
         vp' = [vp EXCEPT !.innerHeight = h, !.timers = @ + 1]
    /\ VpStep

\* A timer of handleOrientationChange fires: setViewportHeight()
OrientationTimer ==
    /\ vp.timers > 0
    /\ vp' = [setViewportHeight(vp) EXCEPT !.timers = @ - 1]
    /\ VpStep

\* cleanupMobileViewport, from App.vue's unmounted hook
CleanupMobileViewport ==
    /\ vp.listening
    /\ vp' = cleanupMobileViewport(vp)
    /\ VpStep

VpInit == PageIdle /\ ioAvailable = TRUE /\ UtilIdle

VpNext ==
    \/ InitMobileViewport
    \/ Resize
    \/ OrientationChange
    \/ OrientationTimer
    \/ CleanupMobileViewport

SpecVp == VpInit /\ [][VpNext]_vars

\* C27: after cleanupMobileViewport returned, --vh is never written again.
C27_NoWriteAfterCleanup ==
    vp.lateWrites = 0

----------------------------------------------------------------------------
(* Images: LazyImage, and an img whose onerror is handleImageError *)

\* A URL as text: absolute, or relative to the page.
Urls ==
    [abs : BOOLEAN, path : {"/invalid-image.jpg", "/fallback-image.jpg"}]

\* What the browser makes of a URL assigned to img.src: reading img.src
\* gives the absolute URL.
Resolve(u) == [u EXCEPT !.abs = TRUE]

\* fallbackSrc arguments: none, or a URL as the caller wrote it.
FallbackArgs == {NoUrl} \cup {u \in Urls : u.path = "/fallback-image.jpg"}

\* How often the fallback source is assigned at most before the model
\* stops following the image.
MaxAssigned == 3

\* The test of loadImage's onerror and of handleImageError:
\* fallbackSrc && img.src !== fallbackSrc
UseFallback(src, fallbackSrc) ==
    IF fallbackSrc = NoUrl THEN FALSE ELSE src # fallbackSrc

\* NetworkErrorHandler.handleImageError(img, fallbackSrc), and likewise
\* the onerror of LazyImage's loadImage: assign the fallback (the image
\* loads again), or give up.
handleImageError(i) ==
    IF UseFallback(i.src, i.fallbackSrc)
    THEN [i EXCEPT !.src = Resolve(i.fallbackSrc), !.inFlight = TRUE,
                   !.assigned = @ + 1, !.errors = @ + 1]
    ELSE [i EXCEPT !.placeholder = TRUE, !.inFlight = FALSE, !.errors = @ + 1]

\* The main <img ref="imageRef"> is rendered under v-if="isIntersecting".
ImageRefPresent(l) == l.isIntersecting

\* LazyImage onMounted: return without imageRef; else observe, or load at
\* once.
lazyMounted(l, loading, io) ==
    LET m == [l EXCEPT !.mounted = TRUE, !.loading = loading]
    IN  IF ~ImageRefPresent(l) THEN m
        ELSE IF loading = "lazy" /\ io THEN [m EXCEPT !.observing = TRUE]
        ELSE [m EXCEPT !.isIntersecting = TRUE]

ImgStep == PageStill /\ UNCHANGED <<ioAvailable, errs, net, vp, sw>>

\* A LazyImage is mounted.
LazyMount ==
    /\ ~lz.mounted
    /\ \E loading \in {"lazy", "eager"} :
         lz' = lazyMounted(lz, loading, ioAvailable)
    /\ UNCHANGED img
    /\ ImgStep

\* The page is scrolled so that the LazyImage is inside the viewport, or
\* no longer is.
LazyScrolled ==
    /\ lz.mounted
    /\ lz' = [lz EXCEPT !.inView = ~@]
    /\ UNCHANGED img
    /\ ImgStep

\* The observer of a LazyImage delivers an intersecting entry:
\* isIntersecting = true, loadImage(), unobserve.
LazyObserved ==
    /\ lz.mounted
    /\ lz.observing
    /\ lz.inView
    /\ lz' = [lz EXCEPT !.isIntersecting = TRUE, !.observing = FALSE]
    /\ UNCHANGED img
    /\ ImgStep

\* LazyImage onUnmounted: disconnect the observer if there is one.
LazyUnmount ==
    /\ lz.mounted
    /\ lz' = NoLz
    /\ UNCHANGED img
    /\ ImgStep

\* errorHandlingTest: an img gets an onerror that calls
\* handleImageError(img, fallbackSrc), then its src is assigned.
ImageAssigned ==
    /\ ~img.inFlight
    /\ \E u \in Urls, f \in FallbackArgs :
         /\ u.path = "/invalid-image.jpg"
         /\ img' = [NoImg EXCEPT !.src = Resolve(u), !.fallbackSrc = f,
                                 !.inFlight = TRUE]
    /\ UNCHANGED lz
    /\ ImgStep

\* The image at img.src arrives.
ImageLoaded ==
    /\ img.inFlight
    /\ img' = [img EXCEPT !.inFlight = FALSE]
    /\ UNCHANGED lz
    /\ ImgStep

\* The image at img.src fails to load: the error event runs onerror.
ImageError ==
    /\ img.inFlight
    /\ img.assigned < MaxAssigned
    /\ img' = handleImageError(img)
    /\ UNCHANGED lz
    /\ ImgStep

ImgInit ==
    /\ PageIdle
    /\ ioAvailable \in BOOLEAN
    /\ errs = NoErrs
    /\ net = NoNet
    /\ vp = NoVp
    /\ lz = NoLz
    /\ img = NoImg
    /\ sw = NoSw

ImgNext ==
    \/ LazyMount
    \/ LazyScrolled
    \/ LazyUnmount
    \/ ImageAssigned
    \/ ImageLoaded
    \/ ImageError

\* Intersection entries and image load and error events are delivered;
\* scrolling, mounting and unmounting are up to the user.
SpecImg ==
    /\ ImgInit
    /\ [][ImgNext]_vars
    /\ WF_vars(LazyObserved)
    /\ WF_vars(ImageLoaded \/ ImageError)

\* C28: a LazyImage mounted with loading = 'lazy', IntersectionObserver
\* being available, whose element is inside the viewport, eventually has
\* isIntersecting = true and isLoaded or isError = true.
C28_EventuallyLoads ==
    (lz.mounted /\ lz.loading = "lazy" /\ ioAvailable /\ lz.inView)
        ~> (lz.isIntersecting /\ (lz.isLoaded \/ lz.isError))

\* C30: when the image and its fallback both fail, the fallback source is
\* assigned at most once before the error state is reached.
C30_FallbackAssignedOnce ==
    img.assigned <= 1

----------------------------------------------------------------------------------------------------------------------------------------
(* The service worker's fetch handler (sw.js) *)

\* Paths requested: directory, and the extension the URL ends with.
Paths ==
    {[dir |-> "/", ext |-> ".html"],
     [dir |-> "/assets/", ext |-> ".js"],
     [dir |-> "/api/", ext |-> ".json"]}

\* Requests: method, whether url.origin is location.origin, path.
Requests == [method : {"GET", "POST"}, sameOrigin : BOOLEAN, path : Paths]

\* Status of a network response; NoStatus stands for a fetch that rejects.
NoStatus == 0
Statuses == {NoStatus, 200, 404}

\* How many fetch events a behaviour has, and how many of them the handler
\* has in flight at most.
MaxRequests == 3
MaxInFlight == 2

\* STATIC_ASSETS, as far as they are among the paths.
STATIC_ASSETS == {[dir |-> "/", ext |-> ".html"]}

\* staticExtensions.some((ext) => url.includes(ext)): '.json' includes
\* '.js'.
HasStaticExtension(path) == path.ext \in {".js", ".json", ".css", ".woff"}

\* isStaticAsset(url)
isStaticAsset(path) ==
    HasStaticExtension(path) \/ path.dir \in {"/assets/", "/fonts/"}

\* The handler's first two tests with the method test left out.
Handles_AnyMethod(request) == request.sameOrigin

\* The handler's first two tests: only same-origin GET requests are
\* answered by the service worker.
Handles(request) == request.method = "GET" /\ request.sameOrigin

\* caches.match(request)
CacheMatch(w, request) == request.path \in w.static \cup w.dynamic

\* if (!networkResponse || networkResponse.status !== 200) return ...
ShouldCache(status) == status = 200

\* cache.put(request, responseClone) into the cache isStaticAsset names.
cachePut(w, f) ==
    [w EXCEPT !.static  = IF isStaticAsset(f.request.path)
                          THEN @ \cup {f.request.path} ELSE @,
              !.dynamic = IF isStaticAsset(f.request.path)
                          THEN @ ELSE @ \cup {f.request.path},
              !.writes  = @ \cup {[id |-> f.id, request |-> f.request,
                                   status |-> f.status]}]

SwStep == PageStill /\ UNCHANGED <<ioAvailable, errs, net, vp, lz, img>>

\* install: cache.addAll(STATIC_ASSETS)
Install ==
    /\ ~(STATIC_ASSETS \subseteq sw.static)
    /\ sw' = [sw EXCEPT !.static = @ \cup STATIC_ASSETS]
    /\ SwStep

\* A fetch event: return at once for what is not handled, else respondWith
\* starts with caches.match.
FetchEvent(request) ==
    /\ sw.events < MaxRequests
    /\ Cardinality(sw.inFlight) < MaxInFlight
    /\ sw' = IF Handles(request)
             THEN [sw EXCEPT !.events = @ + 1,
                      !.inFlight =
                      @ \cup {[id |-> sw.events + 1, request |-> request,
                               stage |-> "matching", status |-> NoStatus]}]
             ELSE [sw EXCEPT !.events = @ + 1,
                             !.skipped = @ \cup {sw.events + 1}]
    /\ SwStep

\* caches.match has resolved: answer from the cache, or fetch.
Matched(f) ==
    /\ f \in sw.inFlight
    /\ f.stage = "matching"
    /\ sw' = IF CacheMatch(sw, f.request)
             THEN [sw EXCEPT !.inFlight = @ \ {f}, !.hits = @ \cup {f.id}]
             ELSE [sw EXCEPT !.inFlight =
                                (@ \ {f}) \cup {[f EXCEPT !.stage = "fetching"]},
                             !.fetched = @ \cup {f.id}]
    /\ SwStep

\* fetch(request) has settled: a response that is cached and returned, a
\* response that is only returned, or the offline fallback.
Responded(f, status) ==
    /\ f \in sw.inFlight
    /\ f.stage = "fetching"
    /\ sw' = IF status # NoStatus /\ ShouldCache(status)
             THEN [sw EXCEPT !.inFlight =
                      (@ \ {f}) \cup {[f EXCEPT !.stage = "putting",
                                                !.status = status]}]
             ELSE [sw EXCEPT !.inFlight = @ \ {f}]
    /\ SwStep

\* caches.open(cacheName) has resolved: cache.put
CachePut(f) ==
    /\ f \in sw.inFlight
    /\ f.stage = "putting"
    /\ sw' = [cachePut(sw, f) EXCEPT !.inFlight = @ \ {f}]
    /\ SwStep

SwInit == PageIdle /\ ioAvailable = TRUE /\ UtilIdle

SwNext ==
    \/ Install
    \/ \E request \in Requests : FetchEvent(request)
    \/ \E f \in sw.inFlight : Matched(f)
    \/ \E f \in sw.inFlight, status \in Statuses : Responded(f, status)
    \/ \E f \in sw.inFlight : CachePut(f)

SpecSw == SwInit /\ [][SwNext]_vars

\* C29: every cache entry the fetch handler writes comes from a
\* same-origin GET request whose network response had status 200, a
\* request the handler skips is neither fetched nor stored by it, and a
\* request with a cache match is answered without a fetch or a write.
C29_OnlyGoodResponsesCached ==
    /\ \A w \in sw.writes :
          /\ w.request.method = "GET"
          /\ w.request.sameOrigin
          /\ w.status = 200
          /\ w.id \in sw.fetched
    /\ \A f \in sw.inFlight : f.request.method = "GET" /\ f.request.sameOrigin
    /\ \A id \in sw.hits \cup sw.skipped :
          /\ id \notin sw.fetched
          /\ \A w \in sw.writes : w.id # id
          /\ \A f \in sw.inFlight : f.id # id

\* A response with status 200 was stored, a response with another status
\* and a skipped request were not, and a later request for the stored
\* path is answered from the cache.
C29_Witness ==
    /\ \E w \in sw.writes, id \in sw.hits : id > w.id
    /\ sw.skipped # {}

====
